---- MODULE Spec2Model ----
(***************************************************************************)
(* Content-Security-Policy reconciliation of helix-html-pipeline.          *)
(*                                                                         *)
(* Two copies of the same step exist: the document-level step              *)
(* (src/unnamed/part_000, run on a whole document tree) and the            *)
(* head-fragment step (src/src/steps/render.js, run on the parsed          *)
(* head.html fragment).  Both are modelled, from their own code, and run   *)
(* on the same input so that they can be compared.                         *)
(*                                                                         *)
(* Text.  A policy text is a sequence of chunks; a chunk is a piece of     *)
(* text that the code never looks into except for the substring "nonce":   *)
(* ";" and " " are the two separators the parser splits on, "nonce" is     *)
(* the placeholder keyword, the other chunks ("script-src", "'", "self",   *)
(* ...) are text that contains neither a separator nor the keyword, and    *)
(* no concatenation of chunks forms the keyword across a chunk boundary.   *)
(* The JavaScript string is the concatenation of the chunks.               *)
(*                                                                         *)
(* Tree.  A tree is the sequence of its elements in document order.  Each  *)
(* element records whether it is a direct child of the root handed to the  *)
(* step (top) or sits deeper, inside some other element.                   *)
(***************************************************************************)
EXTENDS Integers, Sequences, FiniteSets, TLC

(***************************************************************************)
(* Bounds of the model.                                                    *)
(***************************************************************************)
\* the number of <meta http-equiv> elements of a tree
MaxMetas == 2

(***************************************************************************)
(* JavaScript values.                                                      *)
(***************************************************************************)
\* the value of a property that is not there (undefined)
Undefined == "undefined"

\* the text that stands for an absent header (headers.get() of a name not set)
NoText == <<Undefined>>

\* truthiness of a property value: undefined and '' are falsy
Truthy(v) == v # Undefined /\ v # ""

\* truthiness of a text-or-undefined: undefined and '' are falsy
TruthyText(t) == t # NoText /\ t # <<>>

\* String.prototype.includes('nonce')
IncludesNonce(t) == \E i \in 1..Len(t) : t[i] = "nonce"

\* `nonce-${nonce}`
NonceToken(nonce) == <<"nonce", "-", nonce>>

RECURSIVE ReplaceFirstNonce(_, _)
\* String.prototype.replace('nonce', ...): the first occurrence only
ReplaceFirstNonce(t, nonce) ==
  IF t = <<>> THEN <<>>
  ELSE IF Head(t) = "nonce" THEN NonceToken(nonce) \o Tail(t)
  ELSE <<Head(t)>> \o ReplaceFirstNonce(Tail(t), nonce)

RECURSIVE replaceAll(_, _)
\* String.prototype.replaceAll('nonce', `nonce-${nonce}`): every occurrence,
\* left to right, the replacement text is not scanned again
replaceAll(t, nonce) ==
  IF t = <<>> THEN <<>>
  ELSE IF Head(t) = "nonce" THEN NonceToken(nonce) \o replaceAll(Tail(t), nonce)
  ELSE <<Head(t)>> \o replaceAll(Tail(t), nonce)

RECURSIVE split(_, _)
\* String.prototype.split(sep) for a one-character separator: the pieces
\* between the separators, empty pieces kept; never an empty list
split(t, sep) ==
  IF \A i \in 1..Len(t) : t[i] # sep THEN <<t>>
  ELSE LET i == CHOOSE j \in 1..Len(t) :
                  t[j] = sep /\ \A k \in 1..(j - 1) : t[k] # sep
       IN <<SubSeq(t, 1, i - 1)>> \o split(SubSeq(t, i + 1, Len(t)), sep)

RECURSIVE trimStart(_)
trimStart(t) == IF t # <<>> /\ Head(t) = " " THEN trimStart(Tail(t)) ELSE t

RECURSIVE trimEnd(_)
trimEnd(t) ==
  IF t # <<>> /\ t[Len(t)] = " " THEN trimEnd(SubSeq(t, 1, Len(t) - 1)) ELSE t

\* String.prototype.trim()
trim(t) == trimEnd(trimStart(t))

RECURSIVE join(_, _)
\* Array.prototype.join(sep)
join(ts, sep) ==
  IF ts = <<>> THEN <<>>
  ELSE IF Len(ts) = 1 THEN ts[1]
  ELSE ts[1] \o <<sep>> \o join(Tail(ts), sep)

\* result[directive] = value on a plain object: a later write replaces
Put(result, directive, value) ==
  [k \in (DOMAIN result) \cup {directive} |->
     IF k = directive THEN value ELSE result[k]]

\* the body of the forEach callback of parseCSP
ParsePart(result, part) ==
  LET tokens == split(trim(part), " ")
  IN Put(result, Head(tokens), join(Tail(tokens), " "))

RECURSIVE ParseParts(_, _)
ParseParts(result, parts) ==
  IF parts = <<>> THEN result
  ELSE ParseParts(ParsePart(result, Head(parts)), Tail(parts))

\* const result = {}
EmptyObject == [k \in {} |-> <<>>]

\* parseCSP of the document-level step
parseCSP(csp) == ParseParts(EmptyObject, split(csp, ";"))

\* parseCSP of the head-fragment step (a copy of the same code)
headParseCSP(csp) == ParseParts(EmptyObject, split(csp, ";"))

\* parsed[name]?.includes('nonce'), undefined counted as false
DirectiveHasNonce(parsed, name) ==
  <<name>> \in DOMAIN parsed /\ IncludesNonce(parsed[<<name>>])

\* shouldApplyNonce of the document-level step
shouldApplyNonce(csp) ==
  [scriptNonce |-> DirectiveHasNonce(parseCSP(csp), "script-src"),
   styleNonce  |-> DirectiveHasNonce(parseCSP(csp), "style-src")]

(***************************************************************************)
(* Elements and trees.                                                     *)
(***************************************************************************)
\* String.prototype.toLowerCase() on the http-equiv values of the model
toLowerCase(s) ==
  CASE s = "Content-Security-Policy" -> "content-security-policy"
    [] s = "CONTENT-SECURITY-POLICY" -> "content-security-policy"
    [] s = "Refresh" -> "refresh"
    [] OTHER -> s

\* an element node: id is its identity (its place in the tree at the start),
\* top says it is a direct child of the root, httpEquiv and rel are the
\* token lists hast keeps for these attributes, content is a policy text,
\* keep is the 'keep-as-meta' property and nonce the nonce property
Element(id, tagName, top, httpEquiv, content, keep, rel, nonce) ==
  [id |-> id, tagName |-> tagName, top |-> top, httpEquiv |-> httpEquiv,
   content |-> content, keep |-> keep, rel |-> rel, nonce |-> nonce]

\* the places of a tree, in document order
Places(tree) == 1..Len(tree)

\* the first place of a tree that satisfies a test, 0 when there is none
First(S) == IF S = {} THEN 0 ELSE CHOOSE i \in S : \A j \in S : i <= j

\* the place of the element with this identity, 0 when it has been removed
PlaceOf(tree, id) == First({i \in Places(tree) : tree[i].id = id})

\* select('meta[http-equiv="<value>"]', tree): the first descendant, in
\* document order, that is a meta whose http-equiv attribute is exactly value
selectMeta(tree, value) ==
  First({i \in Places(tree) :
           tree[i].tagName = "meta" /\ tree[i].httpEquiv = <<value>>})

\* a bug that takes any meta element for the policy
getMetaCSPAnyMeta(tree) == First({i \in Places(tree) : tree[i].tagName = "meta"})

\* getMetaCSP: the place of the selected element, 0 for none
getMetaCSP(tree) ==
  IF selectMeta(tree, "content-security-policy") # 0
  THEN selectMeta(tree, "content-security-policy")
  ELSE selectMeta(tree, "Content-Security-Policy")

\* getHeaderCSP: the response holds the one header of interest
getHeaderCSP(res) == res

\* selectAll('script', tree)
selectScripts(tree) == {i \in Places(tree) : tree[i].tagName = "script"}

\* selectAll('style', tree) and selectAll('link[rel=stylesheet]', tree)
selectStyles(tree) ==
  {i \in Places(tree) : tree[i].tagName = "style"}
    \cup {i \in Places(tree) :
            tree[i].tagName = "link" /\ tree[i].rel = <<"stylesheet">>}

\* el.properties.nonce = nonce on each element of a selection
Stamp(tree, places, nonce) ==
  [i \in Places(tree) |->
     IF i \in places THEN [tree[i] EXCEPT !.nonce = nonce] ELSE tree[i]]

\* remove(tree, null, node): the node leaves the tree (a parent the removal
\* empties, which remove drops too, is none of the elements a tree holds here)
remove(tree, id) ==
  LET Keep(el) == el.id # id IN SelectSeq(tree, Keep)

\* a bug that rewrites the first placeholder only (replace for replaceAll)
rewriteFirstOnly(text, nonce) == ReplaceFirstNonce(text, nonce)

\* text.replaceAll('nonce', `nonce-${nonce}`) as createAndApplyNonce uses it
rewrite(text, nonce) == replaceAll(text, nonce)

\* createAndApplyNonce of the document-level step; metaCSP is a place or 0,
\* res and headersCSP are header values; gives the tree and the response
createAndApplyNonce(res, tree, metaCSP, headersCSP, nonce) ==
  LET metaFlags == IF metaCSP # 0 THEN shouldApplyNonce(tree[metaCSP].content)
                   ELSE [scriptNonce |-> FALSE, styleNonce |-> FALSE]
      tree1 == IF metaCSP # 0
               THEN [tree EXCEPT ![metaCSP].content = rewrite(@, nonce)]
               ELSE tree
      headerFlags == IF TruthyText(headersCSP) THEN shouldApplyNonce(headersCSP)
                     ELSE [scriptNonce |-> FALSE, styleNonce |-> FALSE]
      res1 == IF TruthyText(headersCSP) THEN rewrite(headersCSP, nonce) ELSE res
      scriptNonceResult == metaFlags.scriptNonce \/ headerFlags.scriptNonce
      styleNonceResult == metaFlags.styleNonce \/ headerFlags.styleNonce
      tree2 == IF scriptNonceResult
               THEN Stamp(tree1, selectScripts(tree1), nonce) ELSE tree1
      tree3 == IF styleNonceResult
               THEN Stamp(tree2, selectStyles(tree2), nonce) ELSE tree2
  IN [tree |-> tree3, res |-> res1]

\* the test of the 'CSP with nonce' branch
nonceInScope(tree, metaCSP, headersCSP) ==
  \/ metaCSP # 0 /\ IncludesNonce(tree[metaCSP].content)
  \/ TruthyText(headersCSP) /\ IncludesNonce(headersCSP)

\* a bug that forgets to remove the promoted element
promoteWithoutRemove(res, tree, metaCSP, headersCSP) ==
  IF metaCSP # 0 /\ ~TruthyText(headersCSP)
  THEN IF ~Truthy(tree[metaCSP].keep)
       THEN [tree |-> tree, res |-> tree[metaCSP].content]
       ELSE [tree |-> [tree EXCEPT ![metaCSP].keep = Undefined], res |-> res]
  ELSE [tree |-> tree, res |-> res]

\* a bug that promotes whatever the marker says
promoteIgnoringMarker(res, tree, metaCSP, headersCSP) ==
  IF metaCSP # 0 /\ ~TruthyText(headersCSP)
  THEN [tree |-> remove(tree, tree[metaCSP].id), res |-> tree[metaCSP].content]
  ELSE [tree |-> tree, res |-> res]

\* a bug that promotes although the response already has a policy
promoteOverHeader(res, tree, metaCSP, headersCSP) ==
  IF metaCSP # 0
  THEN IF ~Truthy(tree[metaCSP].keep)
       THEN [tree |-> remove(tree, tree[metaCSP].id),
             res |-> tree[metaCSP].content]
       ELSE [tree |-> [tree EXCEPT ![metaCSP].keep = Undefined], res |-> res]
  ELSE [tree |-> tree, res |-> res]

\* the last statement of contentSecurityPolicy: promote the meta policy to
\* the header, or keep it as meta and delete the marker
promote(res, tree, metaCSP, headersCSP) ==
  IF metaCSP # 0 /\ ~TruthyText(headersCSP)
  THEN IF ~Truthy(tree[metaCSP].keep)
       THEN [tree |-> remove(tree, tree[metaCSP].id),
             res |-> tree[metaCSP].content]
       ELSE [tree |-> [tree EXCEPT ![metaCSP].keep = Undefined], res |-> res]
  ELSE [tree |-> tree, res |-> res]

\* what one call leaves behind: the tree, the response header, the identity of
\* the element taken as the meta policy (0: none), the nonces drawn (their
\* number and the last one)
Outcome(tree, res, meta, generated, nonce) ==
  [pc |-> "done", tree |-> tree, header |-> res, meta |-> meta,
   generated |-> generated, nonce |-> nonce]

\* contentSecurityPolicy of the document-level step, nonce being what
\* crypto.randomBytes gives if it is called
contentSecurityPolicy(res, tree, nonce) ==
  LET metaCSP == getMetaCSP(tree)
      headersCSP == getHeaderCSP(res)
      metaId == IF metaCSP = 0 THEN 0 ELSE tree[metaCSP].id
  IN IF metaCSP = 0 /\ ~TruthyText(headersCSP)
     THEN Outcome(tree, res, 0, 0, Undefined)
     ELSE IF nonceInScope(tree, metaCSP, headersCSP)
     THEN LET a == createAndApplyNonce(res, tree, metaCSP, headersCSP, nonce)
              p == promote(a.res, a.tree, metaCSP, headersCSP)
          IN Outcome(p.tree, p.res, metaId, 1, nonce)
     ELSE LET p == promote(res, tree, metaCSP, headersCSP)
          IN Outcome(p.tree, p.res, metaId, 0, Undefined)

(***************************************************************************)
(* The head-fragment step (render.js): the same step written over          *)
(* head.children, the direct children of the fragment root.                *)
(***************************************************************************)
\* head.children: the places of the direct children of the root
children(tree) == {i \in Places(tree) : tree[i].top}

\* head.children.find(el => el.tagName === 'meta'
\*   && el.properties?.httpEquiv?.[0]?.toLowerCase() === 'content-security-policy')
headFindMetaCSP(tree) ==
  First({i \in children(tree) :
           /\ tree[i].tagName = "meta"
           /\ tree[i].httpEquiv # <<>>
           /\ toLowerCase(tree[i].httpEquiv[1]) = "content-security-policy"})

\* the children createAndApplyNonce of render.js stamps for script-src
headScripts(tree) == {i \in children(tree) : tree[i].tagName = "script"}

\* the children createAndApplyNonce of render.js stamps for style-src
headStyles(tree) ==
  {i \in children(tree) :
     \/ tree[i].tagName = "style"
     \/ /\ tree[i].tagName = "link"
        /\ tree[i].rel # <<>>
        /\ tree[i].rel[1] = "stylesheet"}

\* createAndApplyNonce of render.js
headCreateAndApplyNonce(res, tree, metaCSP, headersCSP, nonce) ==
  LET parsedMetaCSP == IF metaCSP # 0 THEN headParseCSP(tree[metaCSP].content)
                       ELSE EmptyObject
      tree1 == IF metaCSP # 0
               THEN [tree EXCEPT ![metaCSP].content = rewrite(@, nonce)]
               ELSE tree
      parsedHeaderCSP == IF TruthyText(headersCSP) THEN headParseCSP(headersCSP)
                         ELSE EmptyObject
      res1 == IF TruthyText(headersCSP) THEN rewrite(headersCSP, nonce) ELSE res
      scriptNonce == \/ DirectiveHasNonce(parsedMetaCSP, "script-src")
                     \/ DirectiveHasNonce(parsedHeaderCSP, "script-src")
      styleNonce == \/ DirectiveHasNonce(parsedMetaCSP, "style-src")
                    \/ DirectiveHasNonce(parsedHeaderCSP, "style-src")
      tree2 == IF scriptNonce
               THEN Stamp(tree1, headScripts(tree1), nonce) ELSE tree1
      tree3 == IF styleNonce
               THEN Stamp(tree2, headStyles(tree2), nonce) ELSE tree2
  IN [tree |-> tree3, res |-> res1]

\* the test of the 'CSP with nonce' branch of render.js
headNonceInScope(tree, metaCSP, headersCSP) ==
  \/ metaCSP # 0 /\ IncludesNonce(tree[metaCSP].content)
  \/ TruthyText(headersCSP) /\ IncludesNonce(headersCSP)

\* the last statement of contentSecurityPolicy of render.js
headPromote(res, tree, metaCSP, headersCSP) ==
  IF metaCSP # 0 /\ ~TruthyText(headersCSP)
  THEN IF ~Truthy(tree[metaCSP].keep)
       THEN [tree |-> remove(tree, tree[metaCSP].id),
             res |-> tree[metaCSP].content]
       ELSE [tree |-> [tree EXCEPT ![metaCSP].keep = Undefined], res |-> res]
  ELSE [tree |-> tree, res |-> res]

\* contentSecurityPolicy of render.js
headContentSecurityPolicy(res, tree, nonce) ==
  LET metaCSP == headFindMetaCSP(tree)
      headersCSP == res
      metaId == IF metaCSP = 0 THEN 0 ELSE tree[metaCSP].id
  IN IF metaCSP = 0 /\ ~TruthyText(headersCSP)
     THEN Outcome(tree, res, 0, 0, Undefined)
     ELSE IF headNonceInScope(tree, metaCSP, headersCSP)
     THEN LET a == headCreateAndApplyNonce(res, tree, metaCSP, headersCSP, nonce)
              p == headPromote(a.res, a.tree, metaCSP, headersCSP)
          IN Outcome(p.tree, p.res, metaId, 1, nonce)
     ELSE LET p == headPromote(res, tree, metaCSP, headersCSP)
          IN Outcome(p.tree, p.res, metaId, 0, Undefined)

(***************************************************************************)
(* The inputs: policy texts, header values, trees.                         *)
(***************************************************************************)
\* default-src self
PolicyPlain == <<"default-src", " ", "self">>
\* script-src 'nonce'
PolicyScript == <<"script-src", " ", "'", "nonce", "'">>
\* style-src 'nonce';
PolicyStyle == <<"style-src", " ", "'", "nonce", "'", ";">>
\* default-src nonce: the keyword in neither of the two directives
PolicyOther == <<"default-src", " ", "nonce">>
\* script-src nonce; style-src nonce
PolicyBoth ==
  <<"script-src", " ", "nonce", ";", " ", "style-src", " ", "nonce">>
\* script-src nonce;script-src self: a directive that repeats
PolicyRepeat ==
  <<"script-src", " ", "nonce", ";", "script-src", " ", "self">>

Policies ==
  {<<>>, PolicyPlain, PolicyScript, PolicyStyle, PolicyOther, PolicyBoth,
   PolicyRepeat}

\* what headers.get('content-security-policy') may give
HeaderValues == {NoText} \cup Policies

\* the values crypto.randomBytes(16).toString('base64') may give
Nonces == {"V1", "V2"}

HttpEquivs ==
  {"content-security-policy", "Content-Security-Policy",
   "CONTENT-SECURITY-POLICY", "Refresh"}

\* the values of the keep-as-meta property: absent, empty, set
KeepValues == {Undefined, "", "true"}

\* a <meta http-equiv=... content=...> element; every meta of the model has
\* a content attribute (the code reads content.includes without a test)
Meta(id, top, httpEquiv, content, keep) ==
  Element(id, "meta", top, <<httpEquiv>>, content, keep, <<>>, Undefined)

\* the first meta of a tree: any http-equiv, depth, content and marker
FirstMetas ==
  {Meta(1, top, he, content, keep) :
     top \in BOOLEAN, he \in HttpEquivs, content \in Policies,
     keep \in KeepValues}

\* a further meta: a policy meta of any letter casing and depth
NextMetas(id) ==
  {Meta(id, top, he, PolicyBoth, Undefined) :
     top \in BOOLEAN, he \in HttpEquivs \ {"Refresh"}}

RECURSIVE MetaLists(_)
\* the lists of n metas
MetaLists(n) ==
  IF n = 0 THEN {<<>>}
  ELSE IF n = 1 THEN {<<m>> : m \in FirstMetas}
  ELSE {Append(ms, m) : ms \in MetaLists(n - 1), m \in NextMetas(n)}

\* the governed elements that follow the k metas of a tree: scripts, styles,
\* stylesheet links and another link, as children of the root and deeper,
\* one script with a nonce of its own
Governed(k) ==
  <<Element(k + 1, "script", TRUE, <<>>, <<>>, Undefined, <<>>, Undefined),
    Element(k + 2, "script", FALSE, <<>>, <<>>, Undefined, <<>>, "authored"),
    Element(k + 3, "style", TRUE, <<>>, <<>>, Undefined, <<>>, Undefined),
    Element(k + 4, "style", FALSE, <<>>, <<>>, Undefined, <<>>, Undefined),
    Element(k + 5, "link", TRUE, <<>>, <<>>, Undefined, <<"stylesheet">>,
            Undefined),
    Element(k + 6, "link", FALSE, <<>>, <<>>, Undefined, <<"stylesheet">>,
            Undefined),
    Element(k + 7, "link", TRUE, <<>>, <<>>, Undefined, <<"icon">>,
            Undefined)>>

Trees ==
  UNION {{ms, ms \o Governed(Len(ms))} :
           ms \in UNION {MetaLists(n) : n \in 0..MaxMetas}}

(***************************************************************************)
(* The state machine: one input, and one call of each step on it.          *)
(***************************************************************************)
VARIABLES
  inTree,    \* the tree handed to the step
  inHeader,  \* the content-security-policy header of the response before
  docRun,    \* the call of the document-level contentSecurityPolicy
  headRun    \* the call of the head-fragment contentSecurityPolicy

vars == <<inTree, inHeader, docRun, headRun>>

\* a call that has not been made yet
Pending(tree, res) ==
  [pc |-> "start", tree |-> tree, header |-> res, meta |-> 0,
   generated |-> 0, nonce |-> Undefined]

Init ==
  /\ inTree \in Trees
  /\ inHeader \in HeaderValues
  /\ docRun = Pending(inTree, inHeader)
  /\ headRun = Pending(inTree, inHeader)

\* contentSecurityPolicy(res, tree) of the document-level step
DocumentStep ==
  /\ docRun.pc = "start"
  /\ \E nonce \in Nonces :
       docRun' = contentSecurityPolicy(docRun.header, docRun.tree, nonce)
  /\ UNCHANGED <<inTree, inHeader, headRun>>

\* contentSecurityPolicy(res, $headHtml) of render
HeadStep ==
  /\ headRun.pc = "start"
  /\ \E nonce \in Nonces :
       headRun' = headContentSecurityPolicy(headRun.header, headRun.tree, nonce)
  /\ UNCHANGED <<inTree, inHeader, docRun>>

Next == DocumentStep \/ HeadStep

Spec == Init /\ [][Next]_vars

(***************************************************************************)
(* What the claims speak of.                                               *)
(***************************************************************************)
Runs == {docRun, headRun}

\* the element a call took as its Meta source, as it was handed in
SelectedIn(r) == inTree[r.meta]

\* the same element after the call; only meaningful while it is in the tree
SelectedOut(r) == r.tree[PlaceOf(r.tree, r.meta)]

\* the call removed its Meta source from the tree
Removed(r) == PlaceOf(r.tree, r.meta) = 0

\* a header value exists: headers.get gives a non-empty text
HeaderExists == TruthyText(inHeader)

\* the element carries the keep-as-meta marker: the property is set and not
\* empty
Marked(el) == Truthy(el.keep)

\* an element is a policy meta: http-equiv is content-security-policy in
\* any letter casing
IsMetaCSP(el) ==
  /\ el.tagName = "meta"
  /\ el.httpEquiv # <<>>
  /\ toLowerCase(el.httpEquiv[1]) = "content-security-policy"

RECURSIVE Unfilled(_)
\* the text with the ("-", value) pair after each keyword taken out again
Unfilled(t) ==
  IF t = <<>> THEN <<>>
  ELSE IF Head(t) = "nonce" /\ Len(t) >= 3 /\ t[2] = "-"
  THEN <<"nonce">> \o Unfilled(SubSeq(t, 4, Len(t)))
  ELSE <<Head(t)>> \o Unfilled(Tail(t))

\* the nonce values a text names: what follows "nonce-"
NamedNonces(t) ==
  {t[i + 2] : i \in {j \in 1..(Len(t) - 2) : t[j] = "nonce" /\ t[j + 1] = "-"}}

\* every keyword of the text is followed by "-" and a value
NoBarePlaceholder(t) ==
  \A i \in 1..Len(t) :
    t[i] = "nonce" => i + 2 <= Len(t) /\ t[i + 1] = "-"

\* after is before with every 'nonce' replaced by 'nonce-V' and nothing else
FilledWith(before, after, V) ==
  /\ Unfilled(after) = before
  /\ NoBarePlaceholder(after)
  /\ NamedNonces(after) \subseteq {V}

\* after is before, changed by nothing but the nonce substitution of the call
OnlySubstituted(r, before, after) ==
  IF r.generated = 1 THEN FilledWith(before, after, r.nonce) ELSE after = before

\* the parse the specification describes: the non-empty trimmed segments, split
\* on runs of spaces, first token the name, the others joined by one space,
\* a later directive of the same name replacing an earlier one
NonEmpty(ts) == LET Full(t) == t # <<>> IN SelectSeq(ts, Full)

SpecifiedPart(result, part) ==
  LET tokens == NonEmpty(split(part, " "))
  IN IF tokens = <<>> THEN result
     ELSE Put(result, Head(tokens), join(Tail(tokens), " "))

RECURSIVE SpecifiedParts(_, _)
SpecifiedParts(result, parts) ==
  IF parts = <<>> THEN result
  ELSE SpecifiedParts(SpecifiedPart(result, Head(parts)), Tail(parts))

SpecifiedParse(csp) == SpecifiedParts(EmptyObject, split(csp, ";"))

\* the directive's value, by the specified parse, contains the keyword
SpecifiedHasNonce(csp, name) == DirectiveHasNonce(SpecifiedParse(csp), name)

\* some present representation's directive value contained the keyword
Required(r, name) ==
  \/ r.meta # 0 /\ SpecifiedHasNonce(SelectedIn(r).content, name)
  \/ HeaderExists /\ SpecifiedHasNonce(inHeader, name)

\* the raw text of a present representation contains the keyword
RawHasNonce(r) ==
  \/ r.meta # 0 /\ IncludesNonce(SelectedIn(r).content)
  \/ HeaderExists /\ IncludesNonce(inHeader)

IsScript(el) == el.tagName = "script"

IsStyleGoverned(el) ==
  \/ el.tagName = "style"
  \/ el.tagName = "link" /\ el.rel = <<"stylesheet">>

(***************************************************************************)
(* The claims.                                                             *)
(***************************************************************************)
\* an element of the tree after a call carries the nonce of the call exactly
\* when its governing directive required one
ElementsConsistent(r) ==
  \A i \in Places(r.tree) :
    LET el == r.tree[i]
    IN /\ IsScript(el) => (el.nonce = r.nonce <=> Required(r, "script-src"))
       /\ IsStyleGoverned(el) =>
            (el.nonce = r.nonce <=> Required(r, "style-src"))

\* C1: whenever the meta text or the header text of a call contains 'nonce',
\* after the call every script element of the tree carries the one nonce V
\* of the call if and only if the script-src value of a present representation
\* contained 'nonce', and every style and stylesheet link element carries V if
\* and only if a style-src value did.
C1_NonceConsistency ==
  \A r \in Runs :
    r.pc = "done" /\ RawHasNonce(r) => r.generated = 1 /\ ElementsConsistent(r)

\* the policy texts of a call name no nonce but the call's, and each text
\* that held the placeholder has every occurrence filled with it
TextsShareNonce(r) ==
  /\ NamedNonces(r.header) \subseteq {r.nonce}
  /\ r.meta # 0 /\ ~Removed(r) =>
       /\ NamedNonces(SelectedOut(r).content) \subseteq {r.nonce}
       /\ IncludesNonce(SelectedIn(r).content) =>
            FilledWith(SelectedIn(r).content, SelectedOut(r).content, r.nonce)
  /\ r.meta # 0 /\ Removed(r) /\ IncludesNonce(SelectedIn(r).content) =>
       FilledWith(SelectedIn(r).content, r.header, r.nonce)
  /\ HeaderExists /\ IncludesNonce(inHeader) =>
       FilledWith(inHeader, r.header, r.nonce)

\* the elements a call stamped all carry the nonce of the call
StampedShareNonce(r) ==
  \A i \in Places(r.tree) :
    r.tree[i].nonce # inTree[r.tree[i].id].nonce => r.tree[i].nonce = r.nonce

C5_HeaderPrecedence ==
  \A r \in Runs :
    r.pc = "done" /\ r.meta # 0 /\ HeaderExists
      => /\ ~Removed(r)
         /\ Len(r.tree) = Len(inTree)
         /\ OnlySubstituted(r, inHeader, r.header)
         /\ OnlySubstituted(r, SelectedIn(r).content, SelectedOut(r).content)
         /\ \A i \in Places(inTree) : PlaceOf(r.tree, inTree[i].id) # 0

\* a meta without marker beside a header with a different policy
C5_Witness ==
  /\ docRun.pc = "done"
  /\ docRun.meta # 0
  /\ HeaderExists
  /\ ~Marked(SelectedIn(docRun))
  /\ SelectedIn(docRun).content # inHeader
  /\ docRun.generated = 1

\* C6: when the tree holds no meta policy element and the response has no
\* header value, the call leaves the tree and the header as they were and
\* generates no nonce.
C6_NoOp ==
  \A r \in Runs :
    /\ r.pc = "done"
    /\ \A i \in Places(inTree) : ~IsMetaCSP(inTree[i])
    /\ ~HeaderExists
    => r.tree = inTree /\ r.header = inHeader /\ r.generated = 0

\* a call on a tree with another meta and governed elements, and no header
C6_Witness ==
  /\ docRun.pc = "done"
  /\ headRun.pc = "done"
  /\ \A i \in Places(inTree) : ~IsMetaCSP(inTree[i])
  /\ \E i \in Places(inTree) : inTree[i].tagName = "meta"
  /\ \E i \in Places(inTree) : inTree[i].tagName = "script"
  /\ inHeader = NoText

\* C7: the two steps, run on the same header and the same tree, select the
\* same meta element, generate a nonce in the same cases, and, when the two
\* nonces are the same value, leave the same tree and the same header.
C7_CallSiteEquivalence ==
  docRun.pc = "done" /\ headRun.pc = "done" =>
    /\ docRun.meta = headRun.meta
    /\ docRun.generated = headRun.generated
    /\ docRun.nonce = headRun.nonce =>
         docRun.tree = headRun.tree /\ docRun.header = headRun.header

\* C8: after a call, whichever branch it took (header or not, nonce or not),
\* its Meta source, if still in the tree, does not carry the keep-as-meta
\* marker.
C8_MarkerNeverLeaks ==
  \A r \in Runs :
    r.pc = "done" /\ r.meta # 0 /\ ~Removed(r) => ~Marked(SelectedOut(r))

\* C9: the Meta source of a call is the first element of the tree, in document
\* order, that is a meta whose http-equiv is content-security-policy in any
\* letter casing (none if there is no such element).
C9_MetaDetection ==
  \A r \in Runs :
    r.pc = "done" =>
      r.meta = First({i \in Places(inTree) : IsMetaCSP(inTree[i])})

\* the texts a call parses: the content of its Meta source and the header
ParsedTexts(r) ==
  IF r.generated = 0 THEN {}
  ELSE (IF r.meta # 0 THEN {SelectedIn(r).content} ELSE {})
         \cup (IF HeaderExists THEN {inHeader} ELSE {})

\* C10: the mapping parseCSP computes for a policy text is the one the
\* specified parse gives: an entry for each non-empty trimmed segment only
\* (none for the empty text), the first token the key, the other tokens joined
\* by single spaces the value, the last directive of a name winning.
C10_PolicyParsing ==
  /\ docRun.pc = "done" =>
       \A csp \in ParsedTexts(docRun) : parseCSP(csp) = SpecifiedParse(csp)
  /\ headRun.pc = "done" =>
       \A csp \in ParsedTexts(headRun) : headParseCSP(csp) = SpecifiedParse(csp)

====
